---- MODULE Spec2Model ----
(***************************************************************************)
(* A model of multiqc/core/update_config.py: the ClConfig override record  *)
(* and update_config(), the resolution pass that folds defaults, config    *)
(* files, inline config and the record into the process-wide config store. *)
(*                                                                         *)
(* Python values are encoded as follows.                                   *)
(*   Optional[T]    None is <<>>, a value v is <<v>>                        *)
(*   list           a sequence                                             *)
(*   YAML null      the string "null"                                      *)
(*   module entry   [kind |-> "str" or "dict", name, opts]                 *)
(*   positional arg a string; the token ClConfigObj stands for a ClConfig  *)
(*                  instance passed positionally                           *)
(***************************************************************************)
EXTENDS Integers, Sequences, FiniteSets, TLC

\* ------------------------------------------------------------- bounds
MaxPasses == 2      \* update_config calls made by one process
MaxDirs == 2        \* positional analysis directories in one call
MaxItems == 2       \* items in a list field of the record

\* ------------------------------------------------------ Optional values
None == <<>>
Some(v) == <<v>>
IsSet(o) == Len(o) = 1
\* Python truthiness of an Optional[bool] / Optional[str] / list
TruthyBool(o) == IsSet(o) /\ o[1] = TRUE
TruthyStr(o) == IsSet(o) /\ o[1] # ""
\* bool > 0 (a bool is the int 0 or 1)
BoolToInt(b) == IF b THEN 1 ELSE 0
GreaterThanZero(b) == BoolToInt(b) > 0

\* ------------------------------------------------------------ ClConfig
\* class ClConfig: every field at its declared default
ClConfig ==
  [ file_list |-> None, prepend_dirs |-> None, dirs_depth |-> None,
    fn_clean_sample_names |-> None, title |-> None, report_comment |-> None,
    template |-> None, require_logs |-> None, output_dir |-> None,
    use_filename_as_sample_name |-> None, replace_names |-> None,
    sample_names |-> None, sample_filters |-> None, filename |-> None,
    make_data_dir |-> None, data_format |-> None, zip_data_dir |-> None,
    force |-> None, ignore_symlinks |-> None, make_report |-> None,
    export_plots |-> None, plots_force_flat |-> None,
    plots_force_interactive |-> None, strict |-> None, development |-> None,
    make_pdf |-> None, no_megaqc_upload |-> None, quiet |-> None,
    verbose |-> None, no_ansi |-> None, profile_runtime |-> None,
    profile_memory |-> None, no_version_check |-> None,
    ignore |-> <<>>, ignore_samples |-> <<>>, only_samples |-> <<>>,
    run_modules |-> <<>>, exclude_modules |-> <<>>, config_files |-> <<>>,
    cl_config |-> <<>>, custom_css_files |-> <<>>, module_order |-> <<>>,
    extra_fn_clean_exts |-> <<>>, extra_fn_clean_trim |-> <<>>,
    preserve_module_raw_data |-> None, data_dump_file_write_raw |-> None,
    ai_summary |-> None, ai_summary_full |-> None, ai_provider |-> None,
    ai_model |-> None, ai_custom_endpoint |-> None,
    ai_custom_context_window |-> None, ai_prompt_short |-> None,
    ai_prompt_full |-> None, no_ai |-> None, unknown_options |-> None,
    check_config |-> None ]

\* the token that stands for a ClConfig instance among positional arguments
ClConfigObj == "<ClConfig>"

\* --------------------------------------------------- the config store
\* config.load_defaults(): the built-in defaults of every store field that
\* update_config reads or writes
DefaultConfig ==
  [ quiet |-> FALSE, no_ansi |-> FALSE, verbose |-> FALSE,
    template |-> "default", title |-> "null", report_comment |-> "null",
    prepend_dirs |-> FALSE, prepend_dirs_depth |-> 0,
    output_dir |-> "/cwd", use_filename_as_sample_name |-> FALSE,
    make_data_dir |-> TRUE, force |-> FALSE, ignore_symlinks |-> FALSE,
    zip_data_dir |-> FALSE, data_format |-> "tsv", export_plots |-> FALSE,
    make_report |-> TRUE, plots_force_flat |-> FALSE,
    plots_force_interactive |-> FALSE, strict |-> FALSE, lint |-> FALSE,
    development |-> FALSE, make_pdf |-> FALSE, simple_output |-> FALSE,
    filename |-> "null", megaqc_upload |-> FALSE,
    fn_clean_sample_names |-> TRUE,
    sample_names_replace |-> "null", sample_names_rename |-> "null",
    show_hide |-> "null",
    run_modules |-> <<>>, exclude_modules |-> <<>>, require_logs |-> FALSE,
    profile_runtime |-> FALSE, profile_memory |-> FALSE,
    no_version_check |-> FALSE, custom_css_files |-> <<>>,
    module_order |-> <<[kind |-> "str", name |-> "fastqc", opts |-> "{}"]>>,
    top_modules |-> <<>>,
    fn_clean_exts |-> <<".gz">>, fn_clean_trim |-> <<".">>,
    preserve_module_raw_data |-> FALSE, data_dump_file_write_raw |-> FALSE,
    ai_summary |-> FALSE, ai_summary_full |-> FALSE,
    ai_provider |-> "seqera", ai_model |-> "null",
    ai_custom_endpoint |-> "null", ai_custom_context_window |-> 0,
    ai_prompt_short |-> "null", ai_prompt_full |-> "null", no_ai |-> FALSE,
    export_plot_formats |-> <<"png", "svg", "pdf">>,
    analysis_dir |-> <<"/cwd">>, file_list |-> FALSE,
    fn_ignore_files |-> <<".DS_Store">>, fn_ignore_dirs |-> <<"multiqc_data">>,
    fn_ignore_paths |-> <<"*/work/??/*">>,
    sample_names_ignore |-> <<>>, sample_names_only_include |-> <<>>,
    kwargs |-> "{}" ]

\* config.load_defaults(): every setting goes back to its default; the
\* bookkeeping of which user files were loaded or registered is not a setting
load_defaults(config) ==
  DefaultConfig @@
  [ loaded_user_files |-> config.loaded_user_files,
    explicit_user_config_files |-> config.explicit_user_config_files ]

\* The store of a process that has imported multiqc.config and registered
\* the explicit user config files `explicit`
FreshConfig(explicit) ==
  DefaultConfig @@
  [ loaded_user_files |-> {}, explicit_user_config_files |-> explicit ]

\* ------------------------------------------------------- collaborators
ImplicitPath == "~/.multiqc_config.yaml"
ExplicitPath == "explicit.yaml"
SessionPathA == "a.yaml"
SessionPathB == "b.yaml"
MissingPath == "missing.yaml"

\* What each config file on disk assigns (the parsed YAML mapping)
FileContent(path) ==
  CASE path = ImplicitPath ->
         [ title |-> "implicit title", quiet |-> TRUE, no_ansi |-> TRUE,
           make_pdf |-> TRUE, filename |-> "implicit.html",
           export_plot_formats |-> <<"svg">>, ai_summary |-> TRUE,
           profile_runtime |-> TRUE, prepend_dirs |-> TRUE,
           fn_ignore_files |-> <<"*.implicit">>, force |-> TRUE,
           megaqc_upload |-> TRUE, strict |-> TRUE ]
    [] path = ExplicitPath ->
         [ title |-> "explicit title", template |-> "simple",
           verbose |-> TRUE, development |-> TRUE,
           sample_names_ignore |-> <<"ctrl*">>, data_format |-> "json",
           ai_summary_full |-> TRUE, profile_memory |-> TRUE ]
    [] path = SessionPathA ->
         [ title |-> "session title", template |-> "default",
           plots_force_flat |-> FALSE, simple_output |-> FALSE,
           export_plot_formats |-> <<"pdf", "svg">>, file_list |-> TRUE,
           report_comment |-> "session comment", output_dir |-> "/session",
           make_report |-> FALSE, kwargs |-> "{'from': 'file'}" ]
    [] path = SessionPathB ->
         [ template |-> "simple", development |-> TRUE,
           export_plot_formats |-> <<>>, quiet |-> FALSE,
           fn_ignore_dirs |-> <<"tmp">>, fn_ignore_paths |-> <<>>,
           sample_names_only_include |-> <<"keep*">>,
           analysis_dir |-> <<"/from/file">>, lint |-> TRUE ]
    [] OTHER -> << >>

FileExists(path) == path \in {ImplicitPath, ExplicitPath, SessionPathA, SessionPathB}

\* The store with the mapping `content` written over it
update(config, content) ==
  [ k \in DOMAIN config |->
      IF k \in DOMAIN content THEN content[k] ELSE config[k] ]

\* config.load_config_file(path, is_explicit_config): a missing file is
\* skipped; otherwise its settings are written to the store and the path is
\* recorded as loaded (and registered when explicit)
load_config_file(config, path, is_explicit_config) ==
  IF ~FileExists(path) THEN config
  ELSE LET c == update(config, FileContent(path)) IN
       [ c EXCEPT !.loaded_user_files = @ \cup {path},
                  !.explicit_user_config_files =
                     IF is_explicit_config THEN @ \cup {path} ELSE @ ]

\* Fold load_config_file over a list of paths, in list order
RECURSIVE load_all(_, _, _)
load_all(config, paths, is_explicit_config) ==
  IF paths = <<>> THEN config
  ELSE load_all(load_config_file(config, Head(paths), is_explicit_config),
                Tail(paths), is_explicit_config)

\* config.find_user_files(): load the implicit config files found on disk
find_user_files(config, implicit) == load_all(config, implicit, FALSE)

\* The sorted iteration order of the set explicit_user_config_files
SetToSeq(S) ==
  IF S = {} THEN <<>>
  ELSE IF S = {ExplicitPath} THEN <<ExplicitPath>>
  ELSE IF S = {SessionPathA} THEN <<SessionPathA>>
  ELSE <<SessionPathA, ExplicitPath>>

\* config.load_cl_config(strings): each "key: value" string is parsed and
\* written to the store
ParseClConfig(str) ==
  CASE str = "title: inline title" -> [ title |-> "inline title" ]
    [] str = "template: simple" -> [ template |-> "simple" ]
    [] str = "plots_force_flat: false" -> [ plots_force_flat |-> FALSE ]
    [] str = "make_pdf: true" -> [ make_pdf |-> TRUE ]
    [] OTHER -> << >>

RECURSIVE load_cl_config(_, _)
load_cl_config(config, strings) ==
  IF strings = <<>> THEN config
  ELSE load_cl_config(update(config, ParseClConfig(Head(strings))), Tail(strings))

\* os.path.realpath on the paths the model uses: a relative path is joined
\* to the working directory, a symbolic link is resolved
realpath(p) ==
  CASE p = "out" -> "/cwd/out"
    [] p = "" -> "/cwd"
    [] p = "/link" -> "/data/target"
    [] OTHER -> p

\* config.load_replace_names / load_sample_names / load_show_hide: each
\* fills its own sub-section of the store from the named file
load_replace_names(config, path) == [ config EXCEPT !.sample_names_replace = path ]
load_sample_names(config, path) == [ config EXCEPT !.sample_names_rename = path ]
load_show_hide(config, show_hide_file) ==
  IF IsSet(show_hide_file) THEN [ config EXCEPT !.show_hide = show_hide_file[1] ]
  ELSE config

\* -------------------------------------------------------- update_config
\* A pass is a record s:
\*   config, report   the store and the report's module lists
\*   trace            the collaborators called, in call order
\*   raised           the pass ended in RunError
\*   snapFiles        the store when the record's fields start to apply
\*   snapCheck        the store when the file_list check is reached
\*   snapLoaded       the store when "config_loaded" is triggered
\* Once raised, every later statement is skipped.

Emit(s, event) == [ s EXCEPT !.trace = Append(@, event) ]

\* plugin_hooks.mqc_trigger(name)
mqc_trigger(s, name) ==
  IF s.raised THEN s
  ELSE IF name = "config_loaded"
       THEN [ Emit(s, name) EXCEPT !.snapLoaded = s.config ]
       ELSE Emit(s, name)

\* Mutant: the pass starts from the store as the last pass left it
ResetStore_Skipped(s) == Emit(s, "load_defaults")

\* Line 90: config.load_defaults()
ResetStore(s) ==
  Emit([ s EXCEPT !.config = load_defaults(s.config) ], "load_defaults")

\* Lines 92-94: the record is the cfg keyword, else a ClConfig passed as the
\* first positional argument, else an empty ClConfig
ResolveCfg(analysis_dir, cfg, posCfg) ==
  LET c == IF ~IsSet(cfg) /\ analysis_dir # <<>> /\ analysis_dir[1] = ClConfigObj
           THEN Some(posCfg) ELSE cfg
  IN IF IsSet(c) THEN c[1] ELSE ClConfig

\* Lines 97-102: quiet, no_ansi, verbose
ApplyVerbosity(s, cfg) ==
  LET c0 == s.config
      c1 == IF IsSet(cfg.quiet) THEN [ c0 EXCEPT !.quiet = cfg.quiet[1] ] ELSE c0
      c2 == IF IsSet(cfg.no_ansi) THEN [ c1 EXCEPT !.no_ansi = cfg.no_ansi[1] ] ELSE c1
      c3 == IF IsSet(cfg.verbose)
            THEN [ c2 EXCEPT !.verbose = GreaterThanZero(cfg.verbose[1]) ] ELSE c2
  IN Emit([ s EXCEPT !.config = c3 ], "verbosity")

\* Lines 104-106: init_log, then the intro callback when one is given
InitLog(s, print_intro_fn) ==
  LET s1 == Emit(s, "init_log")
  IN IF print_intro_fn THEN Emit(s1, "print_intro_fn") ELSE s1

\* Lines 113-129: forget the loaded files, then load the implicit files, the
\* registered explicit files, the record's config_files and its cl_config
LoadConfigs(s, cfg, implicit) ==
  LET c0 == [ s.config EXCEPT !.loaded_user_files = {} ]
      c1 == find_user_files(c0, implicit)
      c2 == load_all(c1, SetToSeq(c1.explicit_user_config_files), TRUE)
      c3 == load_all(c2, cfg.config_files, FALSE)
      c4 == IF Len(cfg.cl_config) > 0 THEN load_cl_config(c3, cfg.cl_config) ELSE c3
      t1 == s.trace \o <<"clear_loaded_user_files", "find_user_files">>
      t2 == t1 \o [ i \in 1..Len(SetToSeq(c1.explicit_user_config_files)) |-> "load_config_file" ]
      t3 == t2 \o [ i \in 1..Len(cfg.config_files) |-> "load_config_file" ]
      t4 == IF Len(cfg.cl_config) > 0 THEN Append(t3, "load_cl_config") ELSE t3
  IN [ s EXCEPT !.config = c4, !.trace = t4, !.snapFiles = c4 ]

\* "if <cond>: config.<F> = <v>"
Assign(config, cond, F, v) == IF cond THEN [ config EXCEPT ![F] = v ] ELSE config
\* "if <cond>: config.<F>.extend(<items>)"
Extend(config, cond, F, items) == IF cond THEN [ config EXCEPT ![F] = @ \o items ] ELSE config
\* "if <cond>: config.<F> = list(<items>) + config.<F>"
Prepend(config, cond, F, items) == IF cond THEN [ config EXCEPT ![F] = items \o @ ] ELSE config

\* Lines 132-164: template ... make_report
ApplyKeyVars(config, cfg) ==
  LET c0 == config
      c1 == Assign(c0, IsSet(cfg.template), "template", cfg.template[1])
      c2 == Assign(c1, IsSet(cfg.title), "title", cfg.title[1])
      c3 == Assign(c2, IsSet(cfg.report_comment), "report_comment", cfg.report_comment[1])
      c4 == Assign(c3, IsSet(cfg.prepend_dirs), "prepend_dirs", cfg.prepend_dirs[1])
      c5 == Assign(c4, IsSet(cfg.dirs_depth), "prepend_dirs", TRUE)
      c6 == Assign(c5, IsSet(cfg.dirs_depth), "prepend_dirs_depth", cfg.dirs_depth[1])
      c7 == Assign(c6, IsSet(cfg.output_dir), "output_dir", realpath(cfg.output_dir[1]))
      c8 == Assign(c7, IsSet(cfg.use_filename_as_sample_name), "use_filename_as_sample_name", cfg.use_filename_as_sample_name[1])
      c9 == Assign(c8, IsSet(cfg.make_data_dir), "make_data_dir", cfg.make_data_dir[1])
      c10 == Assign(c9, IsSet(cfg.force), "force", cfg.force[1])
      c11 == Assign(c10, IsSet(cfg.ignore_symlinks), "ignore_symlinks", cfg.ignore_symlinks[1])
      c12 == Assign(c11, IsSet(cfg.zip_data_dir), "zip_data_dir", cfg.zip_data_dir[1])
      c13 == Assign(c12, IsSet(cfg.data_format), "data_format", cfg.data_format[1])
      c14 == Assign(c13, IsSet(cfg.export_plots), "export_plots", cfg.export_plots[1])
      c15 == Assign(c14, IsSet(cfg.make_report), "make_report", cfg.make_report[1])
  IN c15

\* Lines 165-173: plots_force_flat, plots_force_interactive, strict, development
ApplyPlotFlags(config, cfg) ==
  LET c0 == config
      c1 == Assign(c0, IsSet(cfg.plots_force_flat), "plots_force_flat", cfg.plots_force_flat[1])
      c2 == Assign(c1, IsSet(cfg.plots_force_interactive), "plots_force_interactive", cfg.plots_force_interactive[1])
      c3 == Assign(c2, IsSet(cfg.strict), "strict", cfg.strict[1])
      c4 == Assign(c3, IsSet(cfg.strict), "lint", cfg.strict[1])
      c5 == Assign(c4, IsSet(cfg.development), "development", cfg.development[1])
  IN c5

\* Mutant: make_pdf guarded by "is not None" like its neighbours
ApplyMakePdf_IsNotNone(config, cfg) ==
  IF IsSet(cfg.make_pdf)
  THEN [ config EXCEPT !.make_pdf = cfg.make_pdf[1], !.template = "simple" ]
  ELSE config

\* Lines 174-176: a truthy make_pdf forces the simple template
ApplyMakePdf(config, cfg) ==
  IF TruthyBool(cfg.make_pdf)
  THEN [ config EXCEPT !.make_pdf = cfg.make_pdf[1], !.template = "simple" ]
  ELSE config

\* Mutant: the derivation reads the record's template, not the store's
ApplySimpleTemplate_FromRecord(config, cfg) ==
  IF cfg.template = Some("simple")
  THEN [ config EXCEPT !.plots_force_flat = TRUE, !.simple_output = TRUE ]
  ELSE config

\* Lines 177-179: the simple template forces flat plots and simple output
ApplySimpleTemplate(config, cfg) ==
  IF config.template = "simple"
  THEN [ config EXCEPT !.plots_force_flat = TRUE, !.simple_output = TRUE ]
  ELSE config

\* Mutant: no_megaqc_upload copied without the negation
ApplyNames_NoNegate(config, cfg) ==
  LET c0 == config
      c1 == Assign(c0, TruthyStr(cfg.filename), "filename", cfg.filename[1])
      c2 == Assign(c1, IsSet(cfg.no_megaqc_upload), "megaqc_upload", cfg.no_megaqc_upload[1])
      c3 == Assign(c2, IsSet(cfg.fn_clean_sample_names), "fn_clean_sample_names", cfg.fn_clean_sample_names[1])
      c4 == IF TruthyStr(cfg.replace_names) THEN load_replace_names(c3, cfg.replace_names[1]) ELSE c3
      c5 == IF TruthyStr(cfg.sample_names) THEN load_sample_names(c4, cfg.sample_names[1]) ELSE c4
      c6 == load_show_hide(c5, IF TruthyStr(cfg.sample_filters) THEN cfg.sample_filters ELSE None)
  IN c6

\* Lines 180-191: filename, megaqc_upload, fn_clean_sample_names and the
\* sample-name files
ApplyNames(config, cfg) ==
  LET c0 == config
      c1 == Assign(c0, TruthyStr(cfg.filename), "filename", cfg.filename[1])
      c2 == Assign(c1, IsSet(cfg.no_megaqc_upload), "megaqc_upload", ~cfg.no_megaqc_upload[1])
      c3 == Assign(c2, IsSet(cfg.fn_clean_sample_names), "fn_clean_sample_names", cfg.fn_clean_sample_names[1])
      c4 == IF TruthyStr(cfg.replace_names) THEN load_replace_names(c3, cfg.replace_names[1]) ELSE c3
      c5 == IF TruthyStr(cfg.sample_names) THEN load_sample_names(c4, cfg.sample_names[1]) ELSE c4
      c6 == load_show_hide(c5, IF TruthyStr(cfg.sample_filters) THEN cfg.sample_filters ELSE None)
  IN c6

\* Lines 192-215: module selection, logs, profiling, version check, css,
\* module order, fn_clean extensions, raw data flags
ApplyModules(config, cfg) ==
  LET c0 == config
      c1 == Assign(c0, Len(cfg.run_modules) > 0, "run_modules", cfg.run_modules)
      c2 == Assign(c1, Len(cfg.exclude_modules) > 0, "exclude_modules", cfg.exclude_modules)
      c3 == Assign(c2, IsSet(cfg.require_logs), "require_logs", cfg.require_logs[1])
      c4 == Assign(c3, IsSet(cfg.profile_runtime), "profile_runtime", cfg.profile_runtime[1])
      c5 == Assign(c4, IsSet(cfg.profile_memory), "profile_runtime", cfg.profile_memory[1])
      c6 == Assign(c5, IsSet(cfg.profile_memory), "profile_memory", cfg.profile_memory[1])
      c7 == Assign(c6, IsSet(cfg.no_version_check), "no_version_check", cfg.no_version_check[1])
      c8 == Extend(c7, cfg.custom_css_files # <<>>, "custom_css_files", cfg.custom_css_files)
      c9 == Assign(c8, cfg.module_order # <<>>, "module_order", cfg.module_order)
      c10 == Prepend(c9, cfg.extra_fn_clean_exts # <<>>, "fn_clean_exts", cfg.extra_fn_clean_exts)
      c11 == Prepend(c10, cfg.extra_fn_clean_trim # <<>>, "fn_clean_trim", cfg.extra_fn_clean_trim)
      c12 == Assign(c11, IsSet(cfg.preserve_module_raw_data), "preserve_module_raw_data", cfg.preserve_module_raw_data[1])
      c13 == Assign(c12, IsSet(cfg.data_dump_file_write_raw), "data_dump_file_write_raw", cfg.data_dump_file_write_raw[1])
  IN c13

\* Lines 216-220: ai_summary, then ai_summary_full written to both fields
ApplyAiSummary(config, cfg) ==
  LET c0 == config
      c1 == Assign(c0, IsSet(cfg.ai_summary), "ai_summary", cfg.ai_summary[1])
      c2 == Assign(c1, IsSet(cfg.ai_summary_full), "ai_summary", cfg.ai_summary_full[1])
      c3 == Assign(c2, IsSet(cfg.ai_summary_full), "ai_summary_full", cfg.ai_summary_full[1])
  IN c3

\* Lines 221-234: the remaining ai_* fields and no_ai
ApplyAiOptions(config, cfg) ==
  LET c0 == config
      c1 == Assign(c0, IsSet(cfg.ai_provider), "ai_provider", cfg.ai_provider[1])
      c2 == Assign(c1, IsSet(cfg.ai_model), "ai_model", cfg.ai_model[1])
      c3 == Assign(c2, IsSet(cfg.ai_custom_endpoint), "ai_custom_endpoint", cfg.ai_custom_endpoint[1])
      c4 == Assign(c3, IsSet(cfg.ai_custom_context_window), "ai_custom_context_window", cfg.ai_custom_context_window[1])
      c5 == Assign(c4, IsSet(cfg.ai_prompt_short), "ai_prompt_short", cfg.ai_prompt_short[1])
      c6 == Assign(c5, IsSet(cfg.ai_prompt_full), "ai_prompt_full", cfg.ai_prompt_full[1])
      c7 == Assign(c6, IsSet(cfg.no_ai), "no_ai", cfg.no_ai[1])
  IN c7

\* "png" in export_plot_formats
Contains(seq, x) == \E i \in 1..Len(seq) : seq[i] = x

\* Mutant: png appended without looking for it first
ApplyDevelopmentPng_Unguarded(config, cfg) ==
  IF config.development
  THEN [ config EXCEPT !.export_plot_formats = Append(@, "png") ]
  ELSE config

\* Lines 236-237: development mode exports png as well
ApplyDevelopmentPng(config, cfg) ==
  IF config.development /\ ~Contains(config.export_plot_formats, "png")
  THEN [ config EXCEPT !.export_plot_formats = Append(@, "png") ]
  ELSE config

\* Lines 132-237 in statement order
ApplyCfgFields(s, cfg) ==
  LET c1 == ApplyKeyVars(s.config, cfg)
      c2 == ApplyPlotFlags(c1, cfg)
      c3 == ApplyMakePdf(c2, cfg)
      c4 == ApplySimpleTemplate(c3, cfg)
      c5 == ApplyNames(c4, cfg)
      c6 == ApplyModules(c5, cfg)
      c7 == ApplyAiSummary(c6, cfg)
      c8 == ApplyAiOptions(c7, cfg)
      c9 == ApplyDevelopmentPng(c8, cfg)
  IN Emit([ s EXCEPT !.config = c9 ], "apply_cfg")

\* Lines 240-241: every positional argument becomes the analysis_dir list
SetAnalysisDir(s, analysis_dir) ==
  LET c == IF analysis_dir # <<>>
           THEN [ s.config EXCEPT !.analysis_dir = analysis_dir ] ELSE s.config
  IN [ s EXCEPT !.config = c, !.snapCheck = c ]

\* Mutant: file_list written before the directory count is checked
CheckFileList_AssignFirst(s, cfg) ==
  IF IsSet(cfg.file_list)
  THEN IF Len(s.config.analysis_dir) > 1
       THEN Emit([ s EXCEPT !.raised = TRUE, !.config.file_list = cfg.file_list[1] ],
                 "RunError")
       ELSE [ s EXCEPT !.config.file_list = cfg.file_list[1] ]
  ELSE s

\* Lines 242-245: file_list needs at most one analysis_dir entry
CheckFileList(s, cfg) ==
  IF IsSet(cfg.file_list)
  THEN IF Len(s.config.analysis_dir) > 1
       THEN Emit([ s EXCEPT !.raised = TRUE ], "RunError")
       ELSE [ s EXCEPT !.config.file_list = cfg.file_list[1] ]
  ELSE s

\* Mutant: the record's items go in front of the store's
ExtendFilters_Prepend(s, cfg) ==
  LET c0 == s.config
      c1 == IF Len(cfg.ignore) > 0
            THEN [ c0 EXCEPT !.fn_ignore_files = cfg.ignore \o @,
                             !.fn_ignore_dirs = cfg.ignore \o @,
                             !.fn_ignore_paths = cfg.ignore \o @ ] ELSE c0
      c2 == IF Len(cfg.ignore_samples) > 0
            THEN [ c1 EXCEPT !.sample_names_ignore = cfg.ignore_samples \o @ ] ELSE c1
      c3 == IF Len(cfg.only_samples) > 0
            THEN [ c2 EXCEPT !.sample_names_only_include = cfg.only_samples \o @ ] ELSE c2
  IN IF s.raised THEN s ELSE [ s EXCEPT !.config = c3 ]

\* Lines 247-257: ignore, ignore_samples, only_samples extend the store lists
ExtendFilters(s, cfg) ==
  LET c0 == s.config
      c1 == IF Len(cfg.ignore) > 0
            THEN [ c0 EXCEPT !.fn_ignore_files = @ \o cfg.ignore,
                             !.fn_ignore_dirs = @ \o cfg.ignore,
                             !.fn_ignore_paths = @ \o cfg.ignore ] ELSE c0
      c2 == IF Len(cfg.ignore_samples) > 0
            THEN [ c1 EXCEPT !.sample_names_ignore = @ \o cfg.ignore_samples ] ELSE c1
      c3 == IF Len(cfg.only_samples) > 0
            THEN [ c2 EXCEPT !.sample_names_only_include = @ \o cfg.only_samples ] ELSE c2
  IN IF s.raised THEN s ELSE [ s EXCEPT !.config = c3 ]

\* m if isinstance(m, dict) else {m: {}}
AsDict(m) == IF m.kind = "dict" THEN m ELSE [ kind |-> "dict", name |-> m.name, opts |-> "{}" ]

\* Lines 259-260: report.top_modules and report.module_order
PrepModuleConfigs(s) ==
  IF s.raised THEN s
  ELSE [ s EXCEPT !.report =
           [ top_modules |-> [ i \in 1..Len(s.config.top_modules) |->
                                 AsDict(s.config.top_modules[i]) ],
             module_order |-> [ i \in 1..Len(s.config.module_order) |->
                                  AsDict(s.config.module_order[i]) ] ] ]

\* Lines 262-263: a non-empty unknown_options dict becomes config.kwargs
SetKwargs(s, cfg) ==
  IF ~s.raised /\ IsSet(cfg.unknown_options) /\ cfg.unknown_options[1] # "{}"
  THEN [ s EXCEPT !.config.kwargs = cfg.unknown_options[1] ]
  ELSE s

\* Mutant: the two closing hooks in the other order
FinalTriggers_Swapped(s) == mqc_trigger(mqc_trigger(s, "execution_start"), "config_loaded")

\* Lines 265-266: the two closing hooks
FinalTriggers(s) == mqc_trigger(mqc_trigger(s, "config_loaded"), "execution_start")

\* The value of a snapshot that was not taken
NoSnapshot == FreshConfig({})

\* Lines 81-266: one pass over the store `config` and report `report`. The
\* call is update_config(*analysis_dir, cfg=cfg, print_intro_fn=...); posCfg
\* is the ClConfig instance that the token ClConfigObj stands for; implicit
\* lists the implicit config files on disk.
update_config(config, report, analysis_dir, cfg, posCfg, print_intro_fn, implicit) ==
  LET s0 == [ config |-> config, report |-> report, trace |-> <<>>,
              raised |-> FALSE, snapFiles |-> NoSnapshot, snapCheck |-> NoSnapshot,
              snapLoaded |-> NoSnapshot ]
      rec == ResolveCfg(analysis_dir, cfg, posCfg)
      s1 == ResetStore(s0)
      s2 == ApplyVerbosity(s1, rec)
      s3 == InitLog(s2, print_intro_fn)
      s4 == mqc_trigger(s3, "before_config")
      s5 == LoadConfigs(s4, rec, implicit)
      s6 == ApplyCfgFields(s5, rec)
      s7 == SetAnalysisDir(s6, analysis_dir)
      s8 == CheckFileList(s7, rec)
      s9 == ExtendFilters(s8, rec)
      s10 == PrepModuleConfigs(s9)
      s11 == SetKwargs(s10, rec)
      s12 == FinalTriggers(s11)
  IN s12

\* ------------------------------------------------------------- inputs
OptBool == { None, Some(TRUE), Some(FALSE) }

\* A ClConfig built with the given fields set
With(fields) == fields @@ ClConfig

\* Every list of at most n items of S
RECURSIVE ListsUpTo(_, _)
ListsUpTo(S, n) ==
  IF n = 0 THEN { <<>> }
  ELSE ListsUpTo(S, n - 1) \cup
       { Append(l, x) : l \in { m \in ListsUpTo(S, n - 1) : Len(m) = n - 1 }, x \in S }

DirNames == << "dir1", "dir2", "dir3", "dir4" >>
Dirs(n) == SubSeq(DirNames, 1, n)

\* Where the record's config_files and cl_config point
Sources ==
  { [ config_files |-> <<>>, cl_config |-> <<>> ],
    [ config_files |-> << SessionPathA, SessionPathB >>,
      cl_config |-> << "title: inline title", "make_pdf: true" >> ],
    [ config_files |-> << MissingPath, SessionPathB, SessionPathA >>,
      cl_config |-> << "template: simple", "plots_force_flat: false" >> ] }
NoSource == [ config_files |-> <<>>, cl_config |-> <<>> ]
SourceA == [ config_files |-> << SessionPathA >>, cl_config |-> <<>> ]
SourceB == [ config_files |-> << SessionPathB >>, cl_config |-> <<>> ]

BoolFields ==
  { "fn_clean_sample_names", "require_logs", "use_filename_as_sample_name",
    "make_data_dir", "zip_data_dir", "force", "ignore_symlinks", "make_report",
    "export_plots", "plots_force_interactive", "strict", "no_megaqc_upload",
    "no_version_check", "preserve_module_raw_data", "data_dump_file_write_raw",
    "no_ai", "check_config" }
StrFields ==
  { "title", "report_comment", "output_dir", "replace_names", "sample_names",
    "sample_filters", "filename", "data_format", "ai_provider", "ai_model",
    "ai_custom_endpoint", "ai_prompt_short", "ai_prompt_full" }
StrValues == { "", "out" }

RecTemplate ==
  { With(src @@ [ template |-> t, make_pdf |-> p, plots_force_flat |-> f ]) :
      t \in { None, Some("default"), Some("simple") },
      p \in OptBool, f \in OptBool, src \in Sources }
RecAi ==
  { With([ ai_summary |-> a, ai_summary_full |-> f ]) : a \in OptBool, f \in OptBool }
RecProfile ==
  { With([ profile_runtime |-> r, profile_memory |-> m ]) : r \in OptBool, m \in OptBool }
RecPrepend ==
  { With([ prepend_dirs |-> p, dirs_depth |-> d ]) :
      p \in OptBool, d \in { None, Some(0), Some(2) } }
RecDevelopment ==
  { With(src @@ [ development |-> d ]) :
      d \in OptBool, src \in { NoSource, SourceA, SourceB } }
RecVerbosity ==
  { With(src @@ [ quiet |-> q, no_ansi |-> q, verbose |-> v ]) :
      q \in OptBool, v \in OptBool, src \in { NoSource, SourceB } }
RecFilters ==
  { With(src @@ [ ignore |-> i, ignore_samples |-> s.neg, only_samples |-> s.pos ]) :
      i \in ListsUpTo({ "*.tmp", "*.bak" }, MaxItems),
      s \in { [ neg |-> <<>>, pos |-> <<>> ],
               [ neg |-> << "neg*" >>, pos |-> << "pos*", "keep*" >> ] },
      src \in { SourceB } } \cup
  { With([ ignore |-> << "*.tmp" >> ]), With([ ignore_samples |-> << "neg*" >> ]),
    With([ only_samples |-> << "pos*" >> ]) }
RecScalars ==
  { With(src @@ [ f \in BoolFields |-> Some(v) ]) :
      v \in BOOLEAN, src \in { NoSource, SourceA } } \cup
  { With(src @@ [ f \in StrFields |-> Some(v) ]) :
      v \in StrValues, src \in { NoSource, SourceA } } \cup
  { With([ f \in { g } |-> Some("/link") ]) : g \in StrFields } \cup
  { With([ ai_custom_context_window |-> Some(n) ]) : n \in { 0, 128 } }
RecLists ==
  { With([ run_modules |-> << "fastqc" >>, exclude_modules |-> << "star" >> ]),
    With([ custom_css_files |-> << "a.css", "b.css" >> ]),
    With([ module_order |-> << [ kind |-> "str", name |-> "star", opts |-> "{}" ],
                               [ kind |-> "dict", name |-> "fastqc",
                                 opts |-> "{'name': 'FastQC (trimmed)'}" ] >> ]),
    With([ extra_fn_clean_exts |-> << ".bam" >>, extra_fn_clean_trim |-> << "_" >> ]),
    With([ unknown_options |-> Some("{'my_plugin_opt': 1}") ]),
    With([ unknown_options |-> Some("{}") ]) }
RecFileList ==
  { With(src @@ [ file_list |-> f, title |-> t, ignore |-> i, unknown_options |-> u ]) :
      f \in OptBool, t \in { Some("file list run") }, i \in { << "*.tmp" >> },
      u \in { Some("{'my_plugin_opt': 1}") }, src \in { NoSource, SourceA } }

\* Records passed with one analysis directory
Records ==
  RecTemplate \cup RecAi \cup RecProfile \cup RecPrepend \cup RecDevelopment \cup
  RecVerbosity \cup RecFilters \cup RecScalars \cup RecLists

\* update_config(*dirs, cfg=rec)
KeywordCalls ==
  { [ analysis_dir |-> Dirs(1), cfg |-> Some(r), posCfg |-> ClConfig,
      print_intro_fn |-> FALSE ] : r \in Records } \cup
  { [ analysis_dir |-> Dirs(n), cfg |-> Some(r), posCfg |-> ClConfig,
      print_intro_fn |-> (n = 1) ] : n \in 0..MaxDirs, r \in RecFileList } \cup
  { [ analysis_dir |-> << ClConfigObj >>, cfg |-> Some(r),
      posCfg |-> With([ title |-> Some("positional") ]),
      print_intro_fn |-> FALSE ] : r \in RecLists }

\* update_config(rec, *dirs)
LegacyCalls ==
  { [ analysis_dir |-> << ClConfigObj >> \o Dirs(n), cfg |-> None, posCfg |-> r,
      print_intro_fn |-> FALSE ] : n \in 0..MaxDirs, r \in RecFileList } \cup
  { [ analysis_dir |-> << ClConfigObj >>, cfg |-> None, posCfg |-> r,
      print_intro_fn |-> TRUE ] : r \in RecAi \cup RecDevelopment }

\* update_config(*dirs)
PlainCalls ==
  { [ analysis_dir |-> Dirs(n), cfg |-> None, posCfg |-> ClConfig,
      print_intro_fn |-> i ] : n \in 0..MaxDirs, i \in BOOLEAN }

\* -------------------------------------------------------- state machine
VARIABLES
  config,          \* multiqc.config: the store
  report,          \* multiqc.report: top_modules, module_order
  implicit_files,  \* the implicit config files on disk
  passes,          \* update_config calls made so far
  call,            \* the arguments of the last call
  trace,           \* what the last call called, in order
  raised,          \* the last call raised RunError
  snapFiles,       \* the store of the last call after all config loading
  snapCheck,       \* the store of the last call at the file_list check
  snapLoaded,      \* the store of the last call at "config_loaded"
  allDev           \* every call so far had development=True in its record

vars == << config, report, implicit_files, passes, call, trace, raised,
           snapFiles, snapCheck, snapLoaded, allDev >>

DefaultReport == [ top_modules |-> <<>>, module_order |-> <<>> ]

NoCall == [ analysis_dir |-> <<>>, cfg |-> None, posCfg |-> ClConfig,
            print_intro_fn |-> FALSE ]

\* The record the last call resolved to
rec == ResolveCfg(call.analysis_dir, call.cfg, call.posCfg)

Init ==
  /\ \E explicit \in { {}, { ExplicitPath } } : config = FreshConfig(explicit)
  /\ report = DefaultReport
  /\ implicit_files \in { <<>>, << ImplicitPath >> }
  /\ passes = 0
  /\ call = NoCall
  /\ trace = <<>>
  /\ raised = FALSE
  /\ snapFiles = NoSnapshot
  /\ snapCheck = NoSnapshot
  /\ snapLoaded = NoSnapshot
  /\ allDev = TRUE

\* One whole call of update_config with the arguments c
Pass(c) ==
  /\ passes < MaxPasses
  /\ \E s \in { update_config(config, report, c.analysis_dir, c.cfg, c.posCfg,
                               c.print_intro_fn, implicit_files) },
        r \in { ResolveCfg(c.analysis_dir, c.cfg, c.posCfg) } :
     /\ passes' = passes + 1
     /\ config' = s.config
     /\ report' = s.report
     /\ trace' = s.trace
     /\ raised' = s.raised
     /\ snapFiles' = s.snapFiles
     /\ snapCheck' = s.snapCheck
     /\ snapLoaded' = s.snapLoaded
     /\ call' = c
     /\ allDev' = (allDev /\ r.development = Some(TRUE))
     /\ UNCHANGED implicit_files

UpdateConfigKeyword == \E c \in KeywordCalls : Pass(c)
UpdateConfigLegacy == \E c \in LegacyCalls : Pass(c)
UpdateConfigPlain == \E c \in PlainCalls : Pass(c)

Next == UpdateConfigKeyword \/ UpdateConfigLegacy \/ UpdateConfigPlain

Spec == Init /\ [][Next]_vars

\* -------------------------------------------------------------- claims
Done == passes > 0 /\ ~raised

\* The store fields that a record field is written to
StoreFieldsOf(f) ==
  CASE f = "dirs_depth" -> { "prepend_dirs_depth" }
    [] f = "no_megaqc_upload" -> { "megaqc_upload" }
    [] f = "extra_fn_clean_exts" -> { "fn_clean_exts" }
    [] f = "extra_fn_clean_trim" -> { "fn_clean_trim" }
    [] f = "ignore" -> { "fn_ignore_files", "fn_ignore_dirs", "fn_ignore_paths" }
    [] f = "ignore_samples" -> { "sample_names_ignore" }
    [] f = "only_samples" -> { "sample_names_only_include" }
    [] f = "unknown_options" -> { "kwargs" }
    [] f = "replace_names" -> { "sample_names_replace" }
    [] f = "sample_names" -> { "sample_names_rename" }
    [] f = "sample_filters" -> { "show_hide" }
    [] f = "strict" -> { "strict", "lint" }
    [] f \in { "config_files", "cl_config", "check_config" } -> {}
    [] OTHER -> { f }

Unset(o) == Len(o) = 0

\* The store field F is the target of a derivation whose trigger holds
Derived(F) ==
  \/ F = "prepend_dirs" /\ IsSet(rec.dirs_depth)
  \/ F = "template" /\ TruthyBool(rec.make_pdf)
  \/ F = "plots_force_flat" /\ config.template = "simple"
  \/ F = "ai_summary" /\ IsSet(rec.ai_summary_full)
  \/ F = "profile_runtime" /\ IsSet(rec.profile_memory)

\* C1 as stated: after a completed pass, a store field whose record field is
\* unset has the value it had when the config loading finished
C1_NoClobber ==
  Done => \A f \in DOMAIN ClConfig : Unset(rec[f]) =>
            \A F \in StoreFieldsOf(f) : config[F] = snapFiles[F]

\* C1 amended: after a completed pass, a store field whose record field is
\* unset has the value it had when the config loading finished, unless it is
\* the target of a derivation whose trigger holds (prepend_dirs under a set
\* dirs_depth, template under a true make_pdf, plots_force_flat under a final
\* template of "simple", ai_summary under a set ai_summary_full,
\* profile_runtime under a set profile_memory); prepend_dirs, template and
\* plots_force_flat then hold true, "simple" and true
C1_NoClobberButDerived ==
  Done =>
    /\ \A f \in DOMAIN ClConfig : Unset(rec[f]) =>
         \A F \in StoreFieldsOf(f) : ~Derived(F) => config[F] = snapFiles[F]
    /\ IsSet(rec.dirs_depth) => config.prepend_dirs = TRUE
    /\ TruthyBool(rec.make_pdf) => config.template = "simple"
    /\ config.template = "simple" => config.plots_force_flat = TRUE

\* C1 witness: a completed pass whose record sets dirs_depth only, over a
\* store where a config file set title and none set prepend_dirs
C1_Witness ==
  /\ Done
  /\ Unset(rec.title) /\ config.title = "explicit title"
  /\ Unset(rec.prepend_dirs) /\ rec.dirs_depth = Some(2)
  /\ snapFiles.prepend_dirs = FALSE
  /\ config.prepend_dirs = TRUE /\ config.prepend_dirs_depth = 2

\* The scalar (Optional) fields of the record that have a store field
ScalarFields ==
  { f \in DOMAIN ClConfig : StoreFieldsOf(f) # {} } \
  { "ignore", "ignore_samples", "only_samples", "run_modules", "exclude_modules",
    "custom_css_files", "module_order", "extra_fn_clean_exts",
    "extra_fn_clean_trim", "unknown_options" }

\* The value the store holds for a record field set to v: the value itself,
\* or its transform
Stored(f, v) ==
  CASE f = "no_megaqc_upload" -> ~v
    [] f = "verbose" -> GreaterThanZero(v)
    [] f = "output_dir" -> realpath(v)
    [] OTHER -> v

EarlyFields == { "quiet", "no_ansi", "verbose" }
\* The fields applied only when truthy
TruthyGuarded == { "make_pdf", "filename", "replace_names", "sample_names", "sample_filters" }

\* A config file or inline string loaded in the last pass assigns F
AssignedByFiles(F) ==
  \/ \E p \in config.loaded_user_files : F \in DOMAIN FileContent(p)
  \/ \E i \in 1..Len(rec.cl_config) : F \in DOMAIN ParseClConfig(rec.cl_config[i])

\* The field f is set in the record to a value Python takes as true
Truthy(f) == IF f = "make_pdf" THEN TruthyBool(rec[f]) ELSE TruthyStr(rec[f])

NumDirs == Cardinality({ i \in 1..Len(call.analysis_dir) : call.analysis_dir[i] # ClConfigObj })

\* C3 as stated: with file_list=true, two positional directories raise
\* RunError and one positional directory completes with the store's
\* file_list true, whether the record is the cfg keyword or the first
\* positional argument
C3_FileListCheck ==
  (passes > 0 /\ rec.file_list = Some(TRUE)) =>
     /\ NumDirs = 2 => raised
     /\ NumDirs = 1 => (~raised /\ config.file_list = TRUE)

\* C5: after a completed pass, a final template of "simple" comes with
\* plots_force_flat and simple_output both true
C5_SimpleForcesFlat ==
  (Done /\ config.template = "simple") =>
     (config.plots_force_flat = TRUE /\ config.simple_output = TRUE)

\* C5 witness: a completed pass where a config file set the simple template
\* and the record sets plots_force_flat=false and no template
C5_Witness ==
  /\ Done
  /\ rec.template = None /\ ~TruthyBool(rec.make_pdf)
  /\ rec.plots_force_flat = Some(FALSE)
  /\ config.template = "simple" /\ config.plots_force_flat = TRUE

\* C6 as stated: after a completed pass whose record sets ai_summary_full, the
\* store's ai_summary is true; with ai_summary_full=true both are true
C6_AiFullForcesSummary ==
  (Done /\ IsSet(rec.ai_summary_full)) =>
     /\ config.ai_summary = TRUE
     /\ rec.ai_summary_full = Some(TRUE) => config.ai_summary_full = TRUE

\* C7: after a completed pass each ignore and sample-filter list of the store
\* is the list it was before the filters were applied, followed by the
\* record's items in record order
C7_FiltersAppend ==
  Done =>
    /\ config.fn_ignore_files = snapCheck.fn_ignore_files \o rec.ignore
    /\ config.fn_ignore_dirs = snapCheck.fn_ignore_dirs \o rec.ignore
    /\ config.fn_ignore_paths = snapCheck.fn_ignore_paths \o rec.ignore
    /\ config.sample_names_ignore = snapCheck.sample_names_ignore \o rec.ignore_samples
    /\ config.sample_names_only_include =
         snapCheck.sample_names_only_include \o rec.only_samples

\* C7 witness: a completed pass that appended two ignore patterns and two
\* only_samples patterns to lists a config file had filled
C7_Witness ==
  /\ Done
  /\ rec.ignore = << "*.tmp", "*.bak" >>
  /\ config.fn_ignore_dirs = << "tmp", "*.tmp", "*.bak" >>
  /\ config.sample_names_only_include = << "keep*", "pos*", "keep*" >>

\* The last call made as the first call of a process that has registered the
\* same explicit config files and finds the same implicit ones
FromFresh ==
  update_config(FreshConfig(config.explicit_user_config_files), DefaultReport,
                call.analysis_dir, call.cfg, call.posCfg, call.print_intro_fn,
                implicit_files)

\* C4: after a second or later pass the store is the store that the same
\* call leaves when it is the first call of a fresh process
C4_SecondPassAsFresh == passes >= 2 => config = FromFresh.config

\* C4 witness: a second pass with development=true after a first pass whose
\* record did not have it, so the two records differ
C4_Witness ==
  /\ passes = 2 /\ ~allDev /\ rec.development = Some(TRUE)
  /\ config.development = TRUE /\ ~raised

\* The number of times x occurs in seq
Count(seq, x) == Cardinality({ i \in 1..Len(seq) : seq[i] = x })

\* C8: after any number of passes, each with development=true in its record,
\* export_plot_formats holds "png" exactly once
C8_PngOnce == (passes > 0 /\ allDev) => Count(config.export_plot_formats, "png") = 1

\* C8 witness: a second development pass over config files that left
\* export_plot_formats without "png", which the pass appended last
C8_Witness ==
  /\ passes = 2 /\ allDev
  /\ ~Contains(snapFiles.export_plot_formats, "png")
  /\ Len(snapFiles.export_plot_formats) > 0
  /\ config.export_plot_formats = Append(snapFiles.export_plot_formats, "png")

\* The positions of an event in the trace of the last call
Pos(e) == { i \in 1..Len(trace) : trace[i] = e }
Once(e) == Cardinality(Pos(e)) = 1
At(e) == CHOOSE i \in Pos(e) : TRUE
LoadEvents == { "clear_loaded_user_files", "find_user_files", "load_config_file",
                "load_cl_config" }

\* C9: in a completed pass the reset, the verbosity fields, init_log, the
\* intro callback when given, "before_config", the clearing and loading of
\* config files, the record's fields, "config_loaded" and "execution_start"
\* happen once each in this order; no loading precedes "before_config" and
\* the store does not change after "config_loaded"
C9_EventOrder ==
  Done =>
    /\ \A e \in { "load_defaults", "verbosity", "init_log", "before_config",
                  "clear_loaded_user_files", "find_user_files", "apply_cfg",
                  "config_loaded", "execution_start" } : Once(e)
    /\ At("load_defaults") = 1
    /\ At("verbosity") = 2
    /\ At("init_log") = 3
    /\ IF call.print_intro_fn
       THEN Once("print_intro_fn") /\ At("print_intro_fn") = 4 /\ At("before_config") = 5
       ELSE Pos("print_intro_fn") = {} /\ At("before_config") = 4
    /\ At("clear_loaded_user_files") = At("before_config") + 1
    /\ \A i \in 1..Len(trace) :
         (At("before_config") < i /\ i < At("apply_cfg")) <=> trace[i] \in LoadEvents
    /\ At("config_loaded") = At("apply_cfg") + 1
    /\ At("execution_start") = At("config_loaded") + 1
    /\ At("execution_start") = Len(trace)
    /\ config = snapLoaded

\* C9 witness: a completed pass with an intro callback, config files and
\* record fields
C9_Witness ==
  /\ Done /\ call.print_intro_fn
  /\ Cardinality(Pos("load_config_file")) >= 2
  /\ IsSet(rec.title) /\ config.kwargs = "{'my_plugin_opt': 1}"

\* C10: when the pass raises RunError the store is as the earlier phases left
\* it (the record's title and the positional arguments are in it), file_list,
\* the ignore and sample-filter lists and kwargs are as they were before the
\* check, and of the hooks only "before_config" was triggered
C10_NoRollback ==
  raised =>
    /\ config = snapCheck
    /\ config.analysis_dir = call.analysis_dir
    /\ \A f \in { "title", "report_comment", "data_format" } :
         IsSet(rec[f]) => config[f] = rec[f][1]
    /\ \A F \in { "file_list", "fn_ignore_files", "fn_ignore_dirs", "fn_ignore_paths",
                  "sample_names_ignore", "sample_names_only_include", "kwargs" } :
         config[F] = snapFiles[F]
    /\ Once("before_config")
    /\ Pos("config_loaded") = {} /\ Pos("execution_start") = {}

\* C10 witness: a raising pass whose record sets title, ignore, unknown_options
\* and file_list=false over a config file that set file_list and kwargs
C10_Witness ==
  /\ raised
  /\ rec.file_list = Some(FALSE) /\ config.file_list = TRUE
  /\ rec.title = Some("file list run") /\ config.title = "file list run"
  /\ rec.ignore # <<>> /\ config.fn_ignore_files = << ".DS_Store" >>
  /\ IsSet(rec.unknown_options) /\ config.kwargs = "{'from': 'file'}"

====
